---- MODULE Spec2Model ----
(***************************************************************************)
(* A model of the notebook boosting_in_sklearn.ipynb: one action per code  *)
(* cell, run top to bottom by a kernel that executes one cell at a time.   *)
(*                                                                         *)
(* Numbers are integers: Mcz is kept in tenths (0.5 is 5), NaN is the      *)
(* sentinel -1, and a correlation is kept as the exact fraction            *)
(* cov / sqrt(varx * vary) through its integer numerator and squared       *)
(* denominator, so that the comparisons of the code are exact.             *)
(***************************************************************************)
EXTENDS Integers, Sequences, FiniteSets, TLC

(***************************************************************************)
(* Bounds of the model.                                                    *)
(***************************************************************************)
MaxRows == 3      \* longest short input file, in rows
TailLen == 21     \* rows of the fixed tail of a long input file
MaxShift == 2     \* unseeded shuffles considered: rotations by 0..MaxShift
MaxLoads == 2     \* executions of the load cell in an interactive session
MaxAnyRows == 3   \* longest input file of an interactive session, in rows

(***************************************************************************)
(* Program constants.                                                      *)
(***************************************************************************)
NaN == -1         \* a missing value of the CSV
MczThreshold == 5 \* galaxies['Mcz'] > 0.5, in tenths
CorrCutNum == 1   \* abs(corr) > 0.5 is abs(corr) > CorrCutNum / CorrCutDen
CorrCutDen == 2
TestSizeDen == 4  \* train_test_split default test_size = 0.25 = 1 / 4
RandomState == 42 \* random_state=42 of the first split
CvFolds == 5      \* cv=5
NCells == 30      \* code cells with a source

Cols == <<"Mcz", "MCzml", "S280MAG">>
ColSet == {Cols[i] : i \in 1..Len(Cols)}
Target == "Mcz"
Predictor == "S280MAG"
ParamGrid == [n_estimators : {25, 50, 100}, loss : {"linear", "square"}]

(***************************************************************************)
(* Generic helpers on sequences.                                           *)
(***************************************************************************)
Range(s) == {s[i] : i \in 1..Len(s)}
Min(a, b) == IF a < b THEN a ELSE b

RECURSIVE SeqSum(_)
SeqSum(s) == IF s = <<>> THEN 0 ELSE Head(s) + SeqSum(Tail(s))

RECURSIVE Filter(_, _)
\* the elements of s whose keep flag is TRUE, in the order of s
Filter(s, keep) ==
  IF s = <<>> THEN <<>>
  ELSE (IF Head(keep) THEN <<Head(s)>> ELSE <<>>) \o Filter(Tail(s), Tail(keep))

Take(s, p) == [i \in 1..Len(p) |-> s[p[i]]]   \* s[p], positional indexing

(***************************************************************************)
(* The input file COMBO17.csv: unreadable, or a sequence of rows, each a   *)
(* value or NaN per column.  Short files vary every row; long files have   *)
(* enough complete rows for a 5-fold cross-validation of the 25% test      *)
(* partition.                                                              *)
(***************************************************************************)
MagVals == {0, 1}
MczVals == {4, 6}
BaseRow == [Mcz |-> 4, MCzml |-> 0, S280MAG |-> 0]
CompleteRows == {[Mcz |-> m, MCzml |-> a, S280MAG |-> b] :
                   m \in MczVals, a \in MagVals, b \in MagVals}
HoleRows == {[BaseRow EXCEPT ![c] = NaN] : c \in ColSet}
ShortRows == CompleteRows \cup HoleRows
\* a smaller choice of rows: two complete ones, one without its feature, one
\* without its target
AnyRows ==
  {BaseRow, [BaseRow EXCEPT !.Mcz = 6, !.S280MAG = 1],
   [BaseRow EXCEPT !.S280MAG = NaN], [BaseRow EXCEPT !.Mcz = NaN]}
TailRow(i) == [Mcz |-> 4 + (i % 3),
               MCzml |-> IF i % 3 = 2 THEN 1 ELSE 0,
               S280MAG |-> i % 2]
TailRows == [i \in 1..TailLen |-> TailRow(i)]
ShortFiles == UNION {[1..n -> ShortRows] : n \in 0..MaxRows}
LongFiles == {pre \o TailRows : pre \in UNION {[1..n -> ShortRows] : n \in 0..1}}
NoFile == [ok |-> FALSE, rows |-> <<>>]
Files == {[ok |-> TRUE, rows |-> f] : f \in ShortFiles \cup LongFiles} \cup {NoFile}

(***************************************************************************)
(* pandas: a DataFrame is its column names and its rows, each row with its *)
(* index label idx and its values v; a Series is a sequence of [idx, val]. *)
(* A numpy array is modelled like a Series; its idx is provenance only and *)
(* is never read by an operation.                                          *)
(***************************************************************************)
read_csv(f) ==
  [cols |-> Cols,
   rows |-> [i \in 1..Len(f.rows) |-> [idx |-> i - 1, v |-> f.rows[i]]]]

IsNull(c, val) == c # "bool" /\ val = NaN
RowHasNull(t, r) == \E c \in Range(t.cols) : IsNull(c, r.v[c])

\* galaxies.isnull().sum().sum()
isnull_sum(t) ==
  SeqSum([i \in 1..Len(t.rows) |->
            Cardinality({c \in Range(t.cols) : IsNull(c, t.rows[i].v[c])})])

\* dropna(how='all'): only a row with every value missing is dropped
dropna_HowAll(t) ==
  [cols |-> t.cols,
   rows |-> Filter(t.rows, [i \in 1..Len(t.rows) |->
                              \E c \in Range(t.cols) : ~IsNull(c, t.rows[i].v[c])])]

RECURSIVE DropSkipping(_, _)
\* rows dropped while iterating over them: the row after a dropped row is
\* never looked at
DropSkipping(t, rs) ==
  IF rs = <<>> THEN <<>>
  ELSE IF RowHasNull(t, Head(rs))
       THEN (IF Len(rs) >= 2 THEN <<rs[2]>> \o DropSkipping(t, Tail(Tail(rs))) ELSE <<>>)
       ELSE <<Head(rs)>> \o DropSkipping(t, Tail(rs))

dropna_Skipping(t) == [cols |-> t.cols, rows |-> DropSkipping(t, t.rows)]

\* galaxies.dropna()
dropna(t) ==
  [cols |-> t.cols,
   rows |-> Filter(t.rows, [i \in 1..Len(t.rows) |-> ~RowHasNull(t, t.rows[i])])]

\* galaxies[c]
Column(t, c) == [i \in 1..Len(t.rows) |-> [idx |-> t.rows[i].idx, val |-> t.rows[i].v[c]]]

\* galaxies[preds]
Project(t, cs) ==
  [cols |-> cs,
   rows |-> [i \in 1..Len(t.rows) |->
               [idx |-> t.rows[i].idx, v |-> [c \in Range(cs) |-> t.rows[i].v[c]]]]]

\* galaxies[c] = s
SetColumn(t, c, s) ==
  [cols |-> IF c \in Range(t.cols) THEN t.cols ELSE Append(t.cols, c),
   rows |-> [i \in 1..Len(t.rows) |->
               [idx |-> t.rows[i].idx,
                v |-> [d \in Range(t.cols) \cup {c} |->
                         IF d = c THEN s[i].val ELSE t.rows[i].v[d]]]]]

\* the number a cell of column c counts as in corr (a bool counts as 0 or 1)
Num(c, val) == IF c = "bool" THEN (IF val THEN 1 ELSE 0) ELSE val

\* Pearson correlation of columns a and b over the rows where both are
\* present: r = num / sqrt(den2), undefined (NaN) when den2 = 0
Corr(t, a, b) ==
  LET keep == [i \in 1..Len(t.rows) |->
                 ~IsNull(a, t.rows[i].v[a]) /\ ~IsNull(b, t.rows[i].v[b])]
      rs == Filter(t.rows, keep)
      n == Len(rs)
      A == [i \in 1..n |-> Num(a, rs[i].v[a])]
      B == [i \in 1..n |-> Num(b, rs[i].v[b])]
      sa == SeqSum(A)
      sb == SeqSum(B)
      sab == SeqSum([i \in 1..n |-> A[i] * B[i]])
      saa == SeqSum([i \in 1..n |-> A[i] * A[i]])
      sbb == SeqSum([i \in 1..n |-> B[i] * B[i]])
  IN [num |-> n * sab - sa * sb,
      den2 |-> (n * saa - sa * sa) * (n * sbb - sb * sb)]

CorrIsNaN(r) == r.den2 = 0

\* abs(r) >= 0.5
AbsGtCut_Geq(r) ==
  /\ ~CorrIsNaN(r)
  /\ CorrCutDen * CorrCutDen * r.num * r.num >= CorrCutNum * CorrCutNum * r.den2

\* abs(r) > 0.5; a comparison with NaN is False
AbsGtCut(r) ==
  /\ ~CorrIsNaN(r)
  /\ CorrCutDen * CorrCutDen * r.num * r.num > CorrCutNum * CorrCutNum * r.den2

\* the loop of the correlation cell, over the column index in order
RECURSIVE PredsLoop(_, _)
PredsLoop(t, cs) ==
  IF cs = <<>> THEN <<>>
  ELSE (IF AbsGtCut(Corr(t, Head(cs), Target)) THEN <<Head(cs)>> ELSE <<>>)
       \o PredsLoop(t, Tail(cs))

\* galaxies['Mcz'] >= 0.5
GtThreshold_Geq(s) ==
  [i \in 1..Len(s) |-> [idx |-> s[i].idx, val |-> s[i].val >= MczThreshold]]

\* galaxies['Mcz'] > 0.5
GtThreshold(s) == [i \in 1..Len(s) |-> [idx |-> s[i].idx, val |-> s[i].val > MczThreshold]]

\* x.values.reshape(-1, 1): the values without the index, one 1-element row each
reshape(s) == [i \in 1..Len(s) |-> [idx |-> s[i].idx, val |-> <<s[i].val>>]]

(***************************************************************************)
(* scikit-learn.  A fitted estimator records the rows it was fitted on; a  *)
(* score records the rows of the fit and the rows it was computed on.  The *)
(* numeric value of a score is opaque.                                     *)
(***************************************************************************)
Rotation(n, k) == [i \in 1..n |-> ((i + k - 1) % n) + 1]

\* the permutation a generator seeded with seed draws for n samples
SeededPermutation(n, seed) == Rotation(n, seed % n)

\* the permutations an unseeded generator may draw for n samples
Shuffles(n) == {Rotation(n, k) : k \in 0..Min(MaxShift, n - 1)}

NTest(n) == (n + TestSizeDen - 1) \div TestSizeDen    \* ceil(0.25 * n)
NTrain(n) == n - NTest(n)

\* a split that only checks that there is a target for every feature
SplitOK_EnoughTargets(X, y) == Len(X) <= Len(y) /\ Len(X) >= 1 /\ NTrain(Len(X)) >= 1

\* train_test_split raises on inconsistent lengths and on an empty train set
SplitOK(X, y) == Len(X) = Len(y) /\ Len(X) >= 1 /\ NTrain(Len(X)) >= 1

\* a split that shuffles the features and leaves the targets in place
train_test_split_Unpaired(X, y, perm) ==
  LET n == Len(X)
      test == SubSeq(perm, 1, NTest(n))
      train == SubSeq(perm, NTest(n) + 1, n)
  IN [x_train |-> Take(X, train), x_test |-> Take(X, test),
      y_train |-> SubSeq(y, NTest(n) + 1, n), y_test |-> SubSeq(y, 1, NTest(n))]

train_test_split(X, y, perm) ==
  LET n == Len(X)
      test == SubSeq(perm, 1, NTest(n))
      train == SubSeq(perm, NTest(n) + 1, n)
  IN [x_train |-> Take(X, train), x_test |-> Take(X, test),
      y_train |-> Take(y, train), y_test |-> Take(y, test)]

Idx(s) == {s[i].idx : i \in 1..Len(s)}

\* fit raises on inconsistent lengths, on no sample and on a NaN feature
FitOK(X, y) ==
  /\ Len(X) = Len(y)
  /\ Len(X) >= 1
  /\ \A i \in 1..Len(X) : X[i].val[1] # NaN

fit(est, params, X, y) == [est |-> est, params |-> params, rows |-> Idx(y)]

\* model.score(X, y), and a metric of y against model.predict(X)
score(model, X, y) ==
  [est |-> model.est, params |-> model.params, fit |-> model.rows, on |-> Idx(y)]

\* KFold(n_splits=5) without shuffling: contiguous folds, the first n % 5
\* of them one sample longer
FoldSize(n, j) == (n \div CvFolds) + (IF j <= n % CvFolds THEN 1 ELSE 0)
\* folds that start as if no fold were one sample longer
FoldStart_NoRemainder(n, j) == (j - 1) * (n \div CvFolds)

FoldStart(n, j) == (j - 1) * (n \div CvFolds) + Min(j - 1, n % CvFolds)
FoldTest(n, j) == [i \in 1..FoldSize(n, j) |-> FoldStart(n, j) + i]
FoldTrain(n, j) ==
  [i \in 1..(n - FoldSize(n, j)) |->
     IF i <= FoldStart(n, j) THEN i ELSE i + FoldSize(n, j)]

CvOK(X, y) == FitOK(X, y) /\ Len(X) >= CvFolds

\* cross_val_score(est, X, y, cv=5): one score per fold, each of a clone of
\* est fitted on the other folds
cross_val_score(est, params, X, y) ==
  [j \in 1..CvFolds |->
     score(fit(est, params, Take(X, FoldTrain(Len(X), j)), Take(y, FoldTrain(Len(y), j))),
           Take(X, FoldTest(Len(X), j)), Take(y, FoldTest(Len(y), j)))]

\* the combinations of the grid in the order GridSearchCV tries them: keys
\* sorted by name, the last key varying fastest
GridOrder ==
  <<[loss |-> "linear", n_estimators |-> 25], [loss |-> "linear", n_estimators |-> 50],
    [loss |-> "linear", n_estimators |-> 100], [loss |-> "square", n_estimators |-> 25],
    [loss |-> "square", n_estimators |-> 50], [loss |-> "square", n_estimators |-> 100]>>

\* the values a mean cross-validation score takes in the model
ScoreVals == {0, 1}

\* the combination with the lowest mean score
BestParams_Worst(sc) ==
  GridOrder[CHOOSE k \in 1..Len(GridOrder) :
              /\ \A j \in 1..Len(GridOrder) : sc[GridOrder[k]] <= sc[GridOrder[j]]
              /\ \A j \in 1..(k - 1) : sc[GridOrder[j]] > sc[GridOrder[k]]]

\* best_params_: the first combination with the highest mean score
BestParams(sc) ==
  GridOrder[CHOOSE k \in 1..Len(GridOrder) :
              /\ \A j \in 1..Len(GridOrder) : sc[GridOrder[k]] >= sc[GridOrder[j]]
              /\ \A j \in 1..(k - 1) : sc[GridOrder[j]] < sc[GridOrder[k]]]

\* the fitted search: the best combination refitted on all of X, and the
\* mean scores of the combinations
GridSearchFit(est, sc, X, y) ==
  [est |-> est, params |-> BestParams(sc), rows |-> Idx(y), mean_test_score |-> sc]

(***************************************************************************)
(* The state: the file on disk, the kernel's namespace ns (the notebook's  *)
(* variables by name), the outputs displayed so far, the scores computed   *)
(* so far, and the kernel's execution state.                               *)
(***************************************************************************)
VARIABLES file, reads, ns, out, evals, pc, running, failed, log

vars == <<file, reads, ns, out, evals, pc, running, failed, log>>

Bind(m, name, val) == [k \in DOMAIN m \cup {name} |-> IF k = name THEN val ELSE m[k]]
Has(names) == names \subseteq DOMAIN ns

galaxies == ns["galaxies"]
preds == ns["preds"]
x == ns["x"]
y == ns["y"]
x_rev == ns["x_rev"]
x_train == ns["x_train"]
x_test == ns["x_test"]
y_train == ns["y_train"]
y_test == ns["y_test"]
abr == ns["abr"]
gs == ns["gs"]
grad_boost == ns["grad_boost"]
x_train2 == ns["x_train2"]
x_test2 == ns["x_test2"]
y_train2 == ns["y_train2"]
y_test2 == ns["y_test2"]
abc == ns["abc"]
gbc == ns["gbc"]

\* default hyperparameters of the estimators, as their repr shows them
AbrParams == [n_estimators |-> 50, loss |-> "linear"]
XgbParams == [n_estimators |-> 100, loss |-> "reg:squarederror"]
AbcParams == [n_estimators |-> 50, loss |-> "exponential"]
GbcParams == [n_estimators |-> 100, loss |-> "deviance"]

Init ==
  /\ file \in Files
  /\ reads = 0
  /\ ns = [k \in {} |-> 0]
  /\ out = <<>>
  /\ evals = {}
  /\ pc = 1
  /\ running = {}
  /\ failed = FALSE
  /\ log = <<>>

Event(ev, c) == [ev |-> ev, cell |-> c]
Output(c, kind, val) == [cell |-> c, kind |-> kind, val |-> val]

\* a run that goes on after an error
Begin_AllowErrors ==
  /\ running = {}
  /\ pc <= NCells
  /\ running' = running \cup {pc}
  /\ pc' = pc + 1
  /\ failed' = FALSE
  /\ log' = Append(log, Event("begin", pc))
  /\ UNCHANGED <<file, reads, ns, out, evals>>

\* a kernel that starts the next cell while one is in progress
Begin_NoWait ==
  /\ ~failed
  /\ pc <= NCells
  /\ running' = running \cup {pc}
  /\ pc' = pc + 1
  /\ log' = Append(log, Event("begin", pc))
  /\ UNCHANGED <<file, reads, ns, out, evals, failed>>

\* a run that stops before its last cell
Begin_StopEarly ==
  /\ ~failed
  /\ running = {}
  /\ pc < NCells
  /\ running' = running \cup {pc}
  /\ pc' = pc + 1
  /\ log' = Append(log, Event("begin", pc))
  /\ UNCHANGED <<file, reads, ns, out, evals, failed>>

\* the kernel takes the next cell of the run when no cell is in progress and
\* no cell has failed
Begin ==
  /\ ~failed
  /\ running = {}
  /\ pc <= NCells
  /\ running' = running \cup {pc}
  /\ pc' = pc + 1
  /\ log' = Append(log, Event("begin", pc))
  /\ UNCHANGED <<file, reads, ns, out, evals, failed>>

\* an exception in the cell in progress: nothing catches it
Raise ==
  \E c \in running :
    /\ running' = running \ {c}
    /\ failed' = TRUE
    /\ log' = Append(log, Event("error", c))
    /\ UNCHANGED <<file, reads, ns, out, evals, pc>>

\* cell c completes: its bindings, its displayed outputs (in place of the
\* outputs of an earlier execution of the cell), its scores
Exec(c, newns, outs, scores) ==
  /\ c \in running
  /\ ns' = newns
  /\ out' = Filter(out, [i \in 1..Len(out) |-> out[i].cell # c]) \o outs
  /\ evals' = evals \cup scores
  /\ running' = running \ {c}
  /\ log' = Append(log, Event("end", c))
  /\ UNCHANGED <<pc, failed>>

(***************************************************************************)
(* The code cells, in notebook order.                                      *)
(***************************************************************************)
\* from sklearn.ensemble import ...; import xgboost; import pandas as pd; ...
CellImports ==
  /\ Exec(1, Bind(ns, "pd", "module"), <<>>, {})
  /\ UNCHANGED <<file, reads>>

\* galaxies = pd.read_csv('COMBO17.csv'); galaxies.head()
CellReadCsv ==
  /\ Has({"pd"})
  /\ file.ok
  /\ Exec(2, Bind(ns, "galaxies", read_csv(file)), <<Output(2, "head", 0)>>, {})
  /\ reads' = reads + 1
  /\ UNCHANGED file

\* galaxies.columns
CellColumns ==
  /\ Has({"galaxies"})
  /\ Exec(3, ns, <<Output(3, "columns", Len(galaxies.cols))>>, {})
  /\ UNCHANGED <<file, reads>>

\* the cell also saves the table over the input file
CellIsnull_Save ==
  /\ Has({"galaxies"})
  /\ Exec(4, ns, <<Output(4, "isnull", isnull_sum(galaxies))>>, {})
  /\ file' = [ok |-> TRUE,
              rows |-> [i \in 1..Len(dropna(galaxies).rows) |-> dropna(galaxies).rows[i].v]]
  /\ UNCHANGED reads

\* galaxies.isnull().sum().sum()
CellIsnull ==
  /\ Has({"galaxies"})
  /\ Exec(4, ns, <<Output(4, "isnull", isnull_sum(galaxies))>>, {})
  /\ UNCHANGED <<file, reads>>

\* galaxies = galaxies.dropna(axis=1): the columns with a missing value go
CellDropna_Columns ==
  /\ Has({"galaxies"})
  /\ LET keep == [i \in 1..Len(galaxies.cols) |->
                    \A j \in 1..Len(galaxies.rows) :
                      ~IsNull(galaxies.cols[i], galaxies.rows[j].v[galaxies.cols[i]])]
     IN Exec(5, Bind(ns, "galaxies", Project(galaxies, Filter(galaxies.cols, keep))),
             <<>>, {})
  /\ UNCHANGED <<file, reads>>

\* galaxies = galaxies.dropna()
CellDropna ==
  /\ Has({"galaxies"})
  /\ Exec(5, Bind(ns, "galaxies", dropna(galaxies)), <<>>, {})
  /\ UNCHANGED <<file, reads>>

\* preds = []; for ind in galaxies.corr()['Mcz'].index: ...
CellPreds ==
  /\ Has({"galaxies"})
  /\ Exec(6, Bind(ns, "preds", PredsLoop(galaxies, galaxies.cols)), <<>>, {})
  /\ UNCHANGED <<file, reads>>

\* galaxies[preds].corr()
CellPredsCorr ==
  /\ Has({"galaxies", "preds"})
  /\ Range(preds) \subseteq Range(galaxies.cols)
  /\ Exec(7, ns, <<Output(7, "corr", Len(Project(galaxies, preds).cols))>>, {})
  /\ UNCHANGED <<file, reads>>

\* x = galaxies['S280MAG']; y = galaxies['Mcz']
CellXY ==
  /\ Has({"galaxies"})
  /\ Exec(8, Bind(Bind(ns, "x", Column(galaxies, Predictor)),
                  "y", Column(galaxies, Target)), <<>>, {})
  /\ UNCHANGED <<file, reads>>

\* x_rev = x.values.reshape(-1, 1)
CellReshape ==
  /\ Has({"x"})
  /\ Exec(9, Bind(ns, "x_rev", reshape(x)), <<>>, {})
  /\ UNCHANGED <<file, reads>>

\* mpl.pyplot.scatter(x_rev, y);
CellScatter ==
  /\ Has({"x_rev", "y"})
  /\ Len(x_rev) = Len(y)
  /\ Exec(10, ns, <<Output(10, "figure", Len(y))>>, {})
  /\ UNCHANGED <<file, reads>>

\* x_train, x_test, y_train, y_test = train_test_split(x_rev, y, random_state=42)
CellSplit ==
  /\ Has({"x_rev", "y"})
  /\ SplitOK(x_rev, y)
  /\ LET r == train_test_split(x_rev, y, SeededPermutation(Len(y), RandomState))
     IN Exec(11, Bind(Bind(Bind(Bind(ns, "x_train", r.x_train), "x_test", r.x_test),
                           "y_train", r.y_train), "y_test", r.y_test), <<>>, {})
  /\ UNCHANGED <<file, reads>>

\* abr = AdaBoostRegressor(random_state=42); abr.fit(x_train, y_train)
CellAbrFit ==
  /\ Has({"x_train", "y_train"})
  /\ FitOK(x_train, y_train)
  /\ Exec(12, Bind(ns, "abr", fit("abr", AbrParams, x_train, y_train)),
          <<Output(12, "repr", 0)>>, {})
  /\ UNCHANGED <<file, reads>>

\* cross_val_score(abr, x_test, y_test, cv=5)
CellCvAbr ==
  /\ Has({"abr", "x_test", "y_test"})
  /\ CvOK(x_test, y_test)
  /\ Exec(13, ns,
          <<Output(13, "scores", Len(cross_val_score(abr.est, abr.params, x_test, y_test)))>>,
          Range(cross_val_score(abr.est, abr.params, x_test, y_test)))
  /\ UNCHANGED <<file, reads>>

\* gs = GridSearchCV(estimator=abr, param_grid={...}, cv=5)
CellGridSearch ==
  /\ Has({"abr"})
  /\ Exec(14, Bind(ns, "gs", [est |-> abr.est, params |-> abr.params, rows |-> {},
                             mean_test_score |-> <<>>]),
          <<>>, {})
  /\ UNCHANGED <<file, reads>>

\* gs.fit(x_train, y_train): 5-fold scores of every combination of the
\* grid, whose means sc are the library's to compute, then a refit of the
\* best combination on the whole of x_train
CellGsFit ==
  /\ Has({"gs", "x_train", "y_train"})
  /\ CvOK(x_train, y_train)
  /\ \E sc \in [ParamGrid -> ScoreVals] :
       Exec(15, Bind(ns, "gs", GridSearchFit(gs.est, sc, x_train, y_train)), <<>>,
            UNION {Range(cross_val_score(gs.est, p, x_train, y_train)) : p \in ParamGrid})
  /\ UNCHANGED <<file, reads>>

\* gs.best_params_
CellBestParams ==
  /\ Has({"gs"})
  /\ gs.rows # {}
  /\ Exec(16, ns, <<Output(16, "best_params_", gs.params.n_estimators)>>, {})
  /\ UNCHANGED <<file, reads>>

\* grad_boost = xgboost.XGBRegressor(...); grad_boost.fit(x_train, y_train)
CellXgbFit ==
  /\ Has({"x_train", "y_train"})
  /\ FitOK(x_train, y_train)
  /\ Exec(17, Bind(ns, "grad_boost", fit("grad_boost", XgbParams, x_train, y_train)),
          <<Output(17, "repr", 0)>>, {})
  /\ UNCHANGED <<file, reads>>

\* cross_val_score(grad_boost, x_test, y_test, cv=5)
CellCvXgb ==
  /\ Has({"grad_boost", "x_test", "y_test"})
  /\ CvOK(x_test, y_test)
  /\ Exec(18, ns,
          <<Output(18, "scores", Len(cross_val_score(grad_boost.est, grad_boost.params, x_test, y_test)))>>,
          Range(cross_val_score(grad_boost.est, grad_boost.params, x_test, y_test)))
  /\ UNCHANGED <<file, reads>>

\* galaxies['Mcz'].hist();
CellHist ==
  /\ Has({"galaxies"})
  /\ Exec(19, ns, <<Output(19, "figure", Len(Column(galaxies, Target)))>>, {})
  /\ UNCHANGED <<file, reads>>

\* galaxies['bool'] = galaxies['Mcz'] > 0.5
CellBool ==
  /\ Has({"galaxies"})
  /\ Exec(20, Bind(ns, "galaxies",
                   SetColumn(galaxies, "bool", GtThreshold(Column(galaxies, Target)))),
          <<>>, {})
  /\ UNCHANGED <<file, reads>>

\* x_train2, x_test2, y_train2, y_test2 = train_test_split(x_rev, galaxies['bool'])
CellSplit2 ==
  /\ Has({"x_rev", "galaxies"})
  /\ "bool" \in Range(galaxies.cols)
  /\ SplitOK(x_rev, Column(galaxies, "bool"))
  /\ \E perm \in Shuffles(Len(x_rev)) :
       LET r == train_test_split(x_rev, Column(galaxies, "bool"), perm)
       IN Exec(21, Bind(Bind(Bind(Bind(ns, "x_train2", r.x_train), "x_test2", r.x_test),
                             "y_train2", r.y_train), "y_test2", r.y_test), <<>>, {})
  /\ UNCHANGED <<file, reads>>

\* abc = AdaBoostClassifier(random_state=42); abc.fit(x_train2, y_train2)
CellAbcFit ==
  /\ Has({"x_train2", "y_train2"})
  /\ FitOK(x_train2, y_train2)
  /\ Exec(22, Bind(ns, "abc", fit("abc", AbcParams, x_train2, y_train2)),
          <<Output(22, "repr", 0)>>, {})
  /\ UNCHANGED <<file, reads>>

\* abc.score(x_test2, y_test2)
CellAbcScore ==
  /\ Has({"abc", "x_test2", "y_test2"})
  /\ FitOK(x_test2, y_test2)
  /\ Exec(23, ns, <<Output(23, "score", 1)>>, {score(abc, x_test2, y_test2)})
  /\ UNCHANGED <<file, reads>>

\* precision_score(y_test2, abc.predict(x_test2))
CellAbcPrecision ==
  /\ Has({"abc", "x_test2", "y_test2"})
  /\ FitOK(x_test2, y_test2)
  /\ Exec(24, ns, <<Output(24, "precision", 1)>>, {score(abc, x_test2, y_test2)})
  /\ UNCHANGED <<file, reads>>

\* recall_score(y_test2, abc.predict(x_test2))
CellAbcRecall ==
  /\ Has({"abc", "x_test2", "y_test2"})
  /\ FitOK(x_test2, y_test2)
  /\ Exec(25, ns, <<Output(25, "recall", 1)>>, {score(abc, x_test2, y_test2)})
  /\ UNCHANGED <<file, reads>>

\* gbc = GradientBoostingClassifier(random_state=42); gbc.fit(x_test2, y_test2)
CellGbcFit ==
  /\ Has({"x_test2", "y_test2"})
  /\ FitOK(x_test2, y_test2)
  /\ Exec(26, Bind(ns, "gbc", fit("gbc", GbcParams, x_test2, y_test2)),
          <<Output(26, "repr", 0)>>, {})
  /\ UNCHANGED <<file, reads>>

\* gbc.score(x_test2, y_test2)
CellGbcScore ==
  /\ Has({"gbc", "x_test2", "y_test2"})
  /\ FitOK(x_test2, y_test2)
  /\ Exec(27, ns, <<Output(27, "score", 1)>>, {score(gbc, x_test2, y_test2)})
  /\ UNCHANGED <<file, reads>>

\* precision_score(y_test2, gbc.predict(x_test2))
CellGbcPrecision ==
  /\ Has({"gbc", "x_test2", "y_test2"})
  /\ FitOK(x_test2, y_test2)
  /\ Exec(28, ns, <<Output(28, "precision", 1)>>, {score(gbc, x_test2, y_test2)})
  /\ UNCHANGED <<file, reads>>

\* recall_score(y_test2, gbc.predict(x_test2))
CellGbcRecall ==
  /\ Has({"gbc", "x_test2", "y_test2"})
  /\ FitOK(x_test2, y_test2)
  /\ Exec(29, ns, <<Output(29, "recall", 1)>>, {score(gbc, x_test2, y_test2)})
  /\ UNCHANGED <<file, reads>>

\* confusion_matrix(y_test2, gbc.predict(x_test2))
CellConfusion ==
  /\ Has({"gbc", "x_test2", "y_test2"})
  /\ FitOK(x_test2, y_test2)
  /\ Exec(30, ns, <<Output(30, "confusion_matrix", 1)>>, {score(gbc, x_test2, y_test2)})
  /\ UNCHANGED <<file, reads>>

Next ==
  \/ Begin
  \/ Raise
  \/ CellImports
  \/ CellReadCsv
  \/ CellColumns
  \/ CellIsnull
  \/ CellDropna
  \/ CellPreds
  \/ CellPredsCorr
  \/ CellXY
  \/ CellReshape
  \/ CellScatter
  \/ CellSplit
  \/ CellAbrFit
  \/ CellCvAbr
  \/ CellGridSearch
  \/ CellGsFit
  \/ CellBestParams
  \/ CellXgbFit
  \/ CellCvXgb
  \/ CellHist
  \/ CellBool
  \/ CellSplit2
  \/ CellAbcFit
  \/ CellAbcScore
  \/ CellAbcPrecision
  \/ CellAbcRecall
  \/ CellGbcFit
  \/ CellGbcScore
  \/ CellGbcPrecision
  \/ CellGbcRecall
  \/ CellConfusion

Spec == Init /\ [][Next]_vars

\* a step of the cell in progress: it completes or it raises
CellStep ==
  \/ Raise
  \/ CellImports \/ CellReadCsv \/ CellColumns \/ CellIsnull \/ CellDropna
  \/ CellPreds \/ CellPredsCorr \/ CellXY \/ CellReshape \/ CellScatter
  \/ CellSplit \/ CellAbrFit \/ CellCvAbr \/ CellGridSearch \/ CellGsFit
  \/ CellBestParams \/ CellXgbFit \/ CellCvXgb \/ CellHist \/ CellBool
  \/ CellSplit2 \/ CellAbcFit \/ CellAbcScore \/ CellAbcPrecision
  \/ CellAbcRecall \/ CellGbcFit \/ CellGbcScore \/ CellGbcPrecision
  \/ CellGbcRecall \/ CellConfusion

\* the synchronous run: the kernel keeps taking the next cell, and a cell in
\* progress returns, with its result or with an exception
\* the input files of the fair run: the long files, which the run reads to
\* its end, the unreadable file and a few short files
FairFiles ==
  {[ok |-> TRUE, rows |-> f] :
     f \in LongFiles \cup UNION {[1..n -> AnyRows] : n \in 0..MaxAnyRows}} \cup {NoFile}

InitFair ==
  /\ file \in FairFiles
  /\ reads = 0
  /\ ns = [k \in {} |-> 0]
  /\ out = <<>>
  /\ evals = {}
  /\ pc = 1
  /\ running = {}
  /\ failed = FALSE
  /\ log = <<>>

FairSpec == InitFair /\ [][Next]_vars /\ WF_vars(Begin) /\ WF_vars(CellStep)

(***************************************************************************)
(* An interactive session: the cells are executed one at a time in any     *)
(* order, each any number of times, a cell only once the names it reads    *)
(* are bound.  The session is restricted to the cells that bind galaxies,  *)
(* x, y and x_rev (and pd, which the load reads) and to the second split:  *)
(* no other cell binds a name these cells read.  The log holds the         *)
(* execution in progress or last completed.                                *)
(***************************************************************************)
AnyCells == {1, 2, 5, 8, 9, 20, 21}

\* the names a cell reads
Reads(c) ==
  CASE c = 1 -> {}
    [] c = 2 -> {"pd"}
    [] c \in {5, 8, 20} -> {"galaxies"}
    [] c = 9 -> {"x"}
    [] OTHER -> {"x_rev", "galaxies"}

AnyFiles ==
  {[ok |-> TRUE, rows |-> f] : f \in UNION {[1..n -> AnyRows] : n \in 0..MaxAnyRows}}

InitAny ==
  /\ file \in AnyFiles
  /\ reads = 0
  /\ ns = [k \in {} |-> 0]
  /\ out = <<>>
  /\ evals = {}
  /\ pc = 1
  /\ running = {}
  /\ failed = FALSE
  /\ log = <<>>

\* the user executes one cell
Rerun ==
  \E c \in AnyCells :
    /\ running = {}
    /\ Has(Reads(c))
    /\ c = 21 => "bool" \in Range(galaxies.cols)
    /\ c = 2 => reads < MaxLoads
    /\ running' = {c}
    /\ failed' = FALSE
    /\ log' = <<Event("begin", c)>>
    /\ UNCHANGED <<file, reads, ns, out, evals, pc>>

NextAny ==
  \/ Rerun
  \/ Raise
  \/ CellImports
  \/ CellReadCsv
  \/ CellDropna
  \/ CellXY
  \/ CellReshape
  \/ CellBool
  \/ CellSplit2

SpecAny == InitAny /\ [][NextAny]_vars

TypeOK ==
  /\ reads \in 0..MaxLoads
  /\ pc \in 1..(NCells + 1)
  /\ running \subseteq 1..NCells
  /\ failed \in BOOLEAN

(***************************************************************************)
(* Properties.                                                             *)
(***************************************************************************)
Began(c) == \E i \in 1..Len(log) : log[i] = Event("begin", c)
Ended(c) == \E i \in 1..Len(log) : log[i] = Event("end", c)
RunComplete == Ended(NCells)

\* the stage each cell belongs to
StageOf(c) ==
  CASE c = 1 -> "setup"
    [] c \in {2, 3} -> "load"
    [] c \in {4, 5} -> "cleaning"
    [] c \in 6..10 -> "correlation"
    [] c \in {11, 21} -> "split"
    [] c \in {12, 17, 22, 26} -> "fit"
    [] c \in {13, 18} -> "cv"
    [] c \in 14..16 -> "grid"
    [] c \in {19, 20} -> "classification"
    [] OTHER -> "scoring"

\* the place of a stage in the order the overview gives
StageRank(st) ==
  CASE st = "setup" -> 0
    [] st = "load" -> 1
    [] st = "cleaning" -> 2
    [] st = "correlation" -> 3
    [] st = "split" -> 4
    [] st = "fit" -> 5
    [] st = "cv" -> 6
    [] st = "grid" -> 7
    [] st = "classification" -> 8
    [] OTHER -> 9

\* the order in which the stages of the notebook's cells follow one another
CodeStageOrder ==
  <<"setup", "load", "cleaning", "correlation", "split", "fit", "cv", "grid",
    "fit", "cv", "classification", "split", "fit", "scoring", "fit", "scoring">>

\* the cells that have begun, in the order they began
RECURSIVE BegunIn(_)
BegunIn(l) ==
  IF l = <<>> THEN <<>>
  ELSE (IF Head(l).ev = "begin" THEN <<Head(l).cell>> ELSE <<>>) \o BegunIn(Tail(l))

BegunCells == BegunIn(log)

RECURSIVE Collapse(_)
\* a sequence without its immediate repetitions
Collapse(s) ==
  IF Len(s) <= 1 THEN s
  ELSE IF s[1] = s[2] THEN Collapse(Tail(s))
       ELSE <<s[1]>> \o Collapse(Tail(s))

StagesRun == Collapse([i \in 1..Len(BegunCells) |-> StageOf(BegunCells[i])])

\* every cell begins only after the cell before it has ended
OneAtATime ==
  \A i \in 1..Len(log) :
    /\ log[i].cell = (i + 1) \div 2
    /\ log[i].ev = (IF i % 2 = 1 THEN "begin" ELSE log[i].ev)
    /\ (i % 2 = 0) => log[i].ev \in {"end", "error"}
    /\ (i < Len(log) /\ i % 2 = 0) => log[i].ev = "end"

\* C1 as stated: the stages run in the order load, cleaning, correlation,
\* split, fit, cross-validation, grid search, classification conversion,
\* scoring, each after the one before it has finished, and no fit or
\* cross-validation begins once the grid search has begun.
C1_Original ==
  /\ OneAtATime
  /\ LET b == BegunCells
     IN \A i \in 1..(Len(b) - 1) :
          StageRank(StageOf(b[i])) <= StageRank(StageOf(b[i + 1]))

\* C1 amended: the stages run in the order of the cells, load, cleaning,
\* correlation, split, fit, cross-validation, grid search, fit,
\* cross-validation, classification conversion, split, fit, scoring, fit,
\* scoring, and a cell begins only after the cell before it has ended.
C1_CellOrder ==
  /\ OneAtATime
  /\ LET st == StagesRun
     IN /\ Len(st) <= Len(CodeStageOrder)
        /\ st = SubSeq(CodeStageOrder, 1, Len(st))
        /\ RunComplete => st = CodeStageOrder

C1_Witness == RunComplete /\ Began(17) /\ Ended(15)

\* the loaded table, as the file holds it
Loaded == read_csv(file).rows
Complete(r) == \A c \in ColSet : r.v[c] # NaN
\* row r without the columns the file does not have
Orig(r) == [idx |-> r.idx, v |-> [c \in ColSet |-> r.v[c]]]

\* C2: once the cleaning cell has ended, the table holds exactly the loaded
\* rows that have no missing value in any column, in their original order
\* and with their loaded values; no row with a missing value remains.
C2_Cleaning ==
  Ended(5) =>
    LET G == galaxies.rows
    IN /\ \A i \in 1..Len(G) : Complete(G[i]) /\ Orig(G[i]) = Loaded[G[i].idx + 1]
       /\ \A j \in 1..Len(Loaded) :
            Complete(Loaded[j]) => \E i \in 1..Len(G) : G[i].idx = Loaded[j].idx
       /\ \A i \in 1..(Len(G) - 1) : G[i].idx < G[i + 1].idx

C2_Witness ==
  /\ Ended(5)
  /\ Len(galaxies.rows) >= 2
  /\ \E j \in 1..Len(Loaded) : ~Complete(Loaded[j]) /\ j < Len(Loaded)

\* C3 as stated: after the load the table's columns are the same in every
\* later state.
C3_Original ==
  [][Has({"galaxies"}) => ns'["galaxies"].cols = galaxies.cols]_vars

\* C3 amended: the table is loaded once; after the load a step changes it
\* only by removing rows that have a missing value or by appending the
\* derived column bool, so the loaded columns stay, in order, with their
\* values, in every later state.
C3_Lifecycle ==
  [][/\ reads' \in {reads, 1}
     /\ Has({"galaxies"}) =>
          LET g == galaxies
              h == ns'["galaxies"]
          IN /\ reads' = reads
             /\ h.cols \in {g.cols, Append(g.cols, "bool")}
             /\ \A i \in 1..Len(h.rows) :
                  \E j \in 1..Len(g.rows) :
                    /\ g.rows[j].idx = h.rows[i].idx
                    /\ \A c \in Range(g.cols) : h.rows[i].v[c] = g.rows[j].v[c]
             /\ \A j \in 1..Len(g.rows) :
                  (\A i \in 1..Len(h.rows) : h.rows[i].idx # g.rows[j].idx)
                    => RowHasNull(g, g.rows[j])]_vars

C3_Witness ==
  /\ Ended(20)
  /\ galaxies.cols = Append(Cols, "bool")
  /\ Len(galaxies.rows) < Len(Loaded)

\* C4: once the classification cell has ended, every row of the cleaned
\* table has a label, no other row has one, and the label is true exactly
\* when the row's Mcz is strictly greater than 0.5.
C4_Label ==
  Ended(20) =>
    LET G == galaxies.rows
    IN /\ "bool" \in Range(galaxies.cols)
       /\ {G[i].idx : i \in 1..Len(G)}
            = {Loaded[j].idx : j \in {k \in 1..Len(Loaded) : Complete(Loaded[k])}}
       /\ \A i \in 1..Len(G) :
            /\ G[i].v["bool"] \in BOOLEAN
            /\ G[i].v["bool"] <=> (Loaded[G[i].idx + 1].v[Target] > MczThreshold)

C4_Witness ==
  /\ Ended(20)
  /\ \E i, j, k \in 1..Len(galaxies.rows) :
       /\ galaxies.rows[i].v[Target] = MczThreshold /\ ~galaxies.rows[i].v["bool"]
       /\ galaxies.rows[j].v[Target] > MczThreshold /\ galaxies.rows[j].v["bool"]
       /\ galaxies.rows[k].v[Target] < MczThreshold /\ ~galaxies.rows[k].v["bool"]

\* C5: a failure is never caught or recovered: the failing step leaves the
\* cell in error with nothing bound and nothing displayed, an unreadable
\* file never yields a table, and no step follows a failure.
C5_NoRecovery ==
  [][/\ ~failed
     /\ failed' => /\ running' = {}
                   /\ ns' = ns /\ out' = out /\ evals' = evals
                   /\ log'[Len(log')].ev = "error"
     /\ ~file.ok => ~("galaxies" \in DOMAIN ns')]_vars

C5_Witness == failed /\ ~file.ok /\ pc = 3 /\ log[Len(log)] = Event("error", 2)

\* C6: at most one cell is in progress, and the namespace, the outputs and
\* the scores change only in a step of that one cell.
C6_SingleThreaded ==
  [][/\ Cardinality(running) <= 1
     /\ Cardinality(running') <= 1
     /\ (ns' # ns \/ out' # out \/ evals' # evals)
          => \E c \in running : running' = {} /\ log' = Append(log, Event("end", c))]_vars

C6_Witness == running = {15} /\ Ended(14) /\ ~Ended(15)

\* C7: the input file is read once, by the load, and is never written.
C7_NoPersistence ==
  [][/\ file' = file
     /\ reads' # reads => (reads = 0 /\ reads' = 1 /\ 2 \in running)]_vars

C7_Witness == RunComplete /\ reads = 1 /\ Len(out) > 0

\* comparisons of two defined correlations r = num / sqrt(den2)
Sq(r) == (IF r.num < 0 THEN 0 - 1 ELSE 1) * r.num * r.num
HigherSigned(r1, r2) == r1.den2 > 0 /\ r2.den2 > 0 /\ Sq(r1) * r2.den2 > Sq(r2) * r1.den2
HigherAbs(r1, r2) ==
  r1.den2 > 0 /\ r2.den2 > 0 /\ r1.num * r1.num * r2.den2 > r2.num * r2.num * r1.den2

\* C8: the predictor bound to x is the column with the highest correlation
\* with Mcz among the other columns of the cleaned table (by value, or by
\* strength: no other column is higher in both readings).
C8_HighestCorrelation ==
  Ended(8) =>
    LET rp == Corr(galaxies, Predictor, Target)
    IN \/ \A c \in ColSet \ {Target} : ~HigherSigned(Corr(galaxies, c, Target), rp)
       \/ \A c \in ColSet \ {Target} : ~HigherAbs(Corr(galaxies, c, Target), rp)

\* the columns whose correlation with Mcz is beyond 0.5 in absolute value
Strong(t) ==
  {c \in ColSet : LET r == Corr(t, c, Target)
                  IN r.den2 > 0 /\ 4 * r.num * r.num > r.den2}
ColPos(c) == CHOOSE i \in 1..Len(Cols) : Cols[i] = c
PredsAreStrong ==
  /\ Range(preds) = Strong(galaxies)
  /\ \A i \in 1..(Len(preds) - 1) : ColPos(preds[i]) < ColPos(preds[i + 1])

\* C9 as stated: after the loop preds holds exactly the columns whose
\* correlation with Mcz is beyond 0.5 in absolute value, once each and in
\* column order, and Mcz is always among them.
C9_Original == Ended(6) => (PredsAreStrong /\ Target \in Range(preds))

\* C9 amended: after the loop preds holds exactly the columns whose
\* correlation with Mcz is beyond 0.5 in absolute value, once each and in
\* column order; a correlation of exactly 0.5 or -0.5 or an undefined one
\* is left out; Mcz is among them exactly when the cleaned table holds two
\* different values of Mcz.
C9_Preds ==
  Ended(6) =>
    /\ PredsAreStrong
    /\ Target \in Range(preds)
         <=> \E i, j \in 1..Len(galaxies.rows) :
               galaxies.rows[i].v[Target] # galaxies.rows[j].v[Target]

C9_Witness ==
  /\ Ended(6)
  /\ Target \in Range(preds)
  /\ \E c \in ColSet : LET r == Corr(galaxies, c, Target)
                       IN r.den2 > 0 /\ 4 * r.num * r.num = r.den2
  /\ \E c \in ColSet : c # Target /\ c \in Range(preds)

\* C10: every score is computed on rows disjoint from the rows its
\* estimator was fitted on.
C10_Disjoint == \A e \in evals : e.fit \cap e.on = {}


\* the index labels of the loaded rows without a missing value
CleanIdx == {Loaded[j].idx : j \in {k \in 1..Len(Loaded) : Complete(Loaded[k])}}

\* X[i] and Y[i] are the feature and the target of the same loaded row
Paired(X, Y, col) ==
  /\ Len(X) = Len(Y)
  /\ \A i \in 1..Len(X) :
       /\ X[i].idx = Y[i].idx
       /\ X[i].val = <<Loaded[X[i].idx + 1].v[Predictor]>>
       /\ Y[i].val = (IF col = "bool"
                      THEN Loaded[Y[i].idx + 1].v[Target] > MczThreshold
                      ELSE Loaded[Y[i].idx + 1].v[col])

\* the two parts hold every cleaned row exactly once
Partition(tr, te) ==
  /\ Idx(tr) \cap Idx(te) = {}
  /\ Idx(tr) \cup Idx(te) = CleanIdx
  /\ Len(tr) + Len(te) = Cardinality(CleanIdx)

\* C11: for both splits, the features and the targets passed to the split
\* have the same length and belong row by row to the same galaxy; the train
\* and the test part are disjoint, hold every cleaned row exactly once and
\* keep each feature with the target or label of its own row.
C11_Splits ==
  /\ Ended(9) => Paired(x_rev, y, Target)
  /\ Ended(11) => /\ Paired(x_train, y_train, Target)
                  /\ Paired(x_test, y_test, Target)
                  /\ Partition(y_train, y_test)
  /\ Ended(20) => Paired(x_rev, Column(galaxies, "bool"), "bool")
  /\ Ended(21) => /\ Paired(x_train2, y_train2, "bool")
                  /\ Paired(x_test2, y_test2, "bool")
                  /\ Partition(y_train2, y_test2)

C11_Witness ==
  /\ Ended(21)
  /\ Len(galaxies.rows) < Len(Loaded)
  /\ x_test2 # x_test
  /\ \E i, j \in 1..Len(y_train2) : y_train2[i].val /\ ~y_train2[j].val


\* C12 as stated: in an interactive session the x_rev and the label column
\* passed to the second split have the same length and describe the same
\* rows.
C12_Original ==
  running = {21} =>
    /\ Len(x_rev) = Len(galaxies.rows)
    /\ \A i \in 1..Len(x_rev) : x_rev[i].idx = galaxies.rows[i].idx

\* C12 amended: in an interactive session x_rev and the label column can
\* reach the second split with different lengths, and then the split raises
\* and binds nothing; every split that completes was given an x_rev and a
\* label column of the same rows, and its parts keep each feature with the
\* label of its own row.
C12_PairedOrRaise ==
  [][/\ (21 \in running /\ Len(x_rev) # Len(galaxies.rows)) => (ns' = ns /\ failed')
     /\ (21 \in running /\ ns' # ns) =>
          \A i \in 1..Len(x_rev) : x_rev[i].idx = galaxies.rows[i].idx
     /\ "x_train2" \in DOMAIN ns' =>
          /\ Paired(ns'["x_train2"], ns'["y_train2"], "bool")
          /\ Paired(ns'["x_test2"], ns'["y_test2"], "bool")
          /\ Idx(ns'["y_train2"]) \cap Idx(ns'["y_test2"]) = {}]_vars

C12_Witness ==
  /\ log = <<Event("begin", 21), Event("error", 21)>>
  /\ reads = 2
  /\ "bool" \in Range(galaxies.cols)
  /\ Len(x_rev) >= 2
  /\ Len(x_rev) < Len(galaxies.rows)


\* C13: two top-to-bottom runs on the same file bind the same train and
\* test parts: in each split, every permutation the split's generator can
\* draw yields the parts the run binds.
C13_Deterministic ==
  [][/\ (11 \in running /\ ns' # ns) =>
          \A perm \in {SeededPermutation(Len(x_rev), RandomState)} :
            LET r == train_test_split(x_rev, y, perm)
            IN /\ r.x_train = ns'["x_train"] /\ r.x_test = ns'["x_test"]
               /\ r.y_train = ns'["y_train"] /\ r.y_test = ns'["y_test"]
     /\ (21 \in running /\ ns' # ns) =>
          \A perm \in Shuffles(Len(x_rev)) :
            LET r == train_test_split(x_rev, Column(galaxies, "bool"), perm)
            IN /\ r.x_train = ns'["x_train2"] /\ r.x_test = ns'["x_test2"]
               /\ r.y_train = ns'["y_train2"] /\ r.y_test = ns'["y_test2"]]_vars


\* C14: the step of gs.fit scores exactly the 6 combinations of the grid,
\* each on 5 folds of the training part only, never on a row of the test
\* part; best_params_ is one of the 6 and no combination has a higher mean
\* score.
C14_GridSearch ==
  [][(15 \in running /\ ns' # ns) =>
       LET new == evals' \ evals
           g == ns'["gs"]
       IN /\ Cardinality(ParamGrid) = 6
          /\ {e.params : e \in new} = ParamGrid
          /\ \A p \in ParamGrid : Cardinality({e \in new : e.params = p}) = CvFolds
          /\ \A e \in new : /\ e.fit \cup e.on = Idx(y_train)
                            /\ e.fit \cap e.on = {}
                            /\ e.on # {}
                            /\ (e.fit \cup e.on) \cap Idx(y_test) = {}
          /\ g.params \in ParamGrid
          /\ \A p \in ParamGrid : g.mean_test_score[g.params] >= g.mean_test_score[p]
          /\ g.rows = Idx(y_train)]_vars

C14_Witness ==
  /\ Ended(15)
  /\ gs.params = [loss |-> "square", n_estimators |-> 100]
  /\ \E p \in ParamGrid : gs.mean_test_score[p] < gs.mean_test_score[gs.params]


\* C15: a step of cross_val_score returns five scores, one per fold; the
\* folds scored are pairwise disjoint and together are the rows passed to
\* the call, and each score is of a fit that saw none of its fold's rows.
C15_CrossVal ==
  [][\A c \in {13, 18} :
       (c \in running /\ log' = Append(log, Event("end", c))) =>
         LET new == evals' \ evals
         IN /\ Cardinality(new) = CvFolds
            /\ out'[Len(out')] = Output(c, "scores", CvFolds)
            /\ \A e \in new : e.on # {} /\ e.fit \cap e.on = {}
            /\ \A e1, e2 \in new : e1 # e2 => e1.on \cap e2.on = {}
            /\ UNION {e.on : e \in new} = Idx(y_test)]_vars

C15_Witness ==
  /\ Ended(18)
  /\ \E e1, e2 \in evals :
       /\ e1.est = "grad_boost" /\ e2.est = "grad_boost"
       /\ Cardinality(e1.on) > Cardinality(e2.on)


\* C16: a top-to-bottom run in which the load succeeds and no call raises
\* terminates: the last cell, the confusion matrix, eventually completes.
C16_Terminates == ([]~failed) => <>RunComplete

C16_Witness == RunComplete /\ ~failed /\ out[Len(out)].kind = "confusion_matrix"


\* C17: the cleaning is idempotent: the table an execution of the cleaning
\* cell leaves is unchanged by a further row-drop, and an execution of the
\* cell on a table without a missing value leaves its rows, their order and
\* its columns as they are.
C17_Idempotent ==
  [][(5 \in running /\ log' = Append(log, Event("end", 5))) =>
       LET g == galaxies
           h == ns'["galaxies"]
       IN /\ dropna(h) = h
          /\ (\A i \in 1..Len(g.rows) : Complete(g.rows[i])) => h = g]_vars

C17_Witness ==
  /\ log = <<Event("begin", 5), Event("end", 5)>>
  /\ Has({"x_rev"})
  /\ Len(x_rev) >= 1
  /\ Len(x_rev) < Len(Loaded)
  /\ Len(galaxies.rows) = Len(x_rev)
  /\ "bool" \in Range(galaxies.cols)

====
